---- MODULE Spec2Model ----
(***************************************************************************)
(* Model of the test-generator repository:                                 *)
(*   test-generator/src/lib.rs        macros expanding a glob pattern into  *)
(*                                    test/bench functions                  *)
(*   src/lib.rs                       the earlier canonical_fn_name         *)
(*   build-deps/src/lib.rs            rerun_if_changed_paths                *)
(*   test-generator-utest/src/lib.rs  the utest! harness                    *)
(*                                                                         *)
(* A string is a sequence of one-character strings; an identifier is a      *)
(* string.  A token stream is a sequence of items (records).                *)
(***************************************************************************)
EXTENDS Naturals, Sequences, FiniteSets, TLC

VARIABLES
    name_in,      \* argument of the naming function under evaluation
    name_fn,      \* which naming function was applied ("none" before the call)
    name_out,     \* its result
    func,         \* the user function the macro is applied to (its tokens)
    glob_result,  \* what glob(&pattern) returns: Err, or the entries it yields
    dirs,         \* the yielded paths that are directories
    expansion,    \* result of a macro invocation
    stdout,       \* lines printed by the build script helper
    ret,          \* return value of rerun_if_changed_paths
    pc,           \* utest: position of each generated test function
    context,      \* utest: catch_unwind(|| $setup())
    result,       \* utest: catch_unwind(|| $test(&ctx))
    finalizer,    \* utest: catch_unwind(|| $teardown(ctx))
    calls,        \* utest: the closures invoked so far, per test, in order
    listing,      \* the expression after "fn_ident;" in a list macro invocation
    expr_in,      \* argument of the stringifying function under evaluation
    expr_out      \* its result

nameVars == <<name_in, name_fn, name_out>>
expandVars == <<func, expansion>>
rerunVars == <<stdout, ret>>
utestVars == <<pc, context, result, finalizer, calls>>
globVars == <<glob_result, dirs>>
listVars == <<listing, expr_in, expr_out>>
vars == <<name_in, name_fn, name_out, func, glob_result, dirs, expansion,
          stdout, ret, pc, context, result, finalizer, calls,
          listing, expr_in, expr_out>>

(***************************************************************************)
(* Bounds                                                                  *)
(***************************************************************************)
\* longest string handed to a naming function
MaxNameLen == 3
\* longest path yielded by glob
MaxPathLen == 2
\* most entries yielded by glob
MaxPaths == 2
\* number of utest! invocations in one test binary
NumTests == 2
\* most elements of an enumerated array expression
MaxArrayLen == 9
\* most elements of the list literal of a macro invocation
MaxElems == 2

(***************************************************************************)
(* Strings                                                                 *)
(***************************************************************************)
StringsUpTo(chars, n) == UNION {[1..k -> chars] : k \in 0..n}

\* str::replace(&[char], to): every character of the set becomes `to`
ReplaceChars(s, set, to) == [i \in 1..Len(s) |-> IF s[i] \in set THEN to ELSE s[i]]

\* str::replace(from, to) for a one-character pattern
Replace(s, from, to) == ReplaceChars(s, {from}, to)

\* format!("{}_{}", a, b)
Format(a, b) == a \o <<"_">> \o b

(***************************************************************************)
(* canonical_fn_name                                                       *)
(***************************************************************************)
\* the characters the current canonical_fn_name replaces by '_'
Delimiters == {"\"", " ", ".", ":", "-", "*", "/", "\\", "\n", "\t", "\r"}

\* a slip: '/' missing from the list
canonical_fn_name_no_slash(s) == ReplaceChars(s, Delimiters \ {"/"}, "_")

canonical_fn_name(s) == ReplaceChars(s, Delimiters, "_")

\* src/lib.rs: a chain of single replacements, without the backslash
legacy_canonical_fn_name(s) ==
    LET s1 == Replace(s, "\"", " ")
        s2 == Replace(s1, " ", "_")
        s3 == Replace(s2, ".", "_")
        s4 == Replace(s3, ":", "_")
        s5 == Replace(s4, "-", "_")
        s6 == Replace(s5, "*", "_")
        s7 == Replace(s6, "/", "_")
        s8 == Replace(s7, "\n", "_")
        s9 == Replace(s8, "\t", "_")
    IN  Replace(s9, "\r", "_")

(***************************************************************************)
(* Identifiers                                                             *)
(***************************************************************************)
Letters == {"a", "b", "c", "d", "e", "f", "g"}
Digits == {"0", "1", "2", "3", "4", "5", "6", "7", "8", "9"}
IdentChars == Letters \cup Digits \cup {"_"}

\* proc_macro2::Ident::new accepts a legal identifier and panics otherwise
IsLegalIdent(s) ==
    /\ Len(s) > 0
    /\ \A i \in 1..Len(s) : s[i] \in IdentChars
    /\ s[1] \notin Digits
    /\ s # <<"_">>

\* Ident::new(&name, Span::call_site())
IdentNew(s) == IF IsLegalIdent(s) THEN [ok |-> TRUE, ident |-> s]
               ELSE [ok |-> FALSE, ident |-> s]

\* fn_ident_from_path: the identifier, or the panic of Ident::new
fn_ident_from_path(fn_ident, path) == IdentNew(canonical_fn_name(Format(fn_ident, path)))

\* test_resources / bench_resources: test_name of the closure
test_name(fn_ident, path_as_str) == canonical_fn_name(Format(fn_ident, path_as_str))

(***************************************************************************)
(* Inputs: the user function and the result of glob                        *)
(***************************************************************************)
\* the tokens of the user function: attributes, signature and body
Funcs ==
    { [attrs |-> <<>>, ident |-> <<"f">>, params |-> <<"resource">>,
       body |-> [kind |-> "user"]],
      [attrs |-> <<"should_panic">>, ident |-> <<"g", "1">>, params |-> <<"resource">>,
       body |-> [kind |-> "user"]] }

\* func_ast.ident
func_ident == func.ident

\* characters of file names: a letter, two characters canonical_fn_name maps
\* to the same '_' ('.' and '_' itself), and one it keeps that no identifier
\* may hold
PathChars == {"a", ".", "_", "+"}

\* the names a directory can hold: "." and ".." are never listed
PathStrings == StringsUpTo(PathChars, MaxPathLen) \ {<<>>, <<".">>, <<".", ".">>}

\* byte order of the characters
CharCode(c) ==
    CASE c = "+" -> 43 [] c = "." -> 46 [] c = "_" -> 95 [] c = "a" -> 97

\* a < b as std::path::Path orders file names (byte-wise)
RECURSIVE PathLess(_, _)
PathLess(a, b) ==
    IF a = <<>> THEN b # <<>>
    ELSE IF b = <<>> THEN FALSE
    ELSE IF a[1] # b[1] THEN CharCode(a[1]) < CharCode(b[1])
    ELSE PathLess(Tail(a), Tail(b))

\* an item of the Paths iterator: Ok(path) or Err(GlobError)
GlobEntries == [ok : {TRUE}, path : PathStrings] \cup {[ok |-> FALSE]}

\* glob yields the entries of a directory in alphabetical order, none twice
SortedPaths(entries) ==
    \A i, j \in 1..Len(entries) :
        (i < j /\ entries[i].ok /\ entries[j].ok) => PathLess(entries[i].path, entries[j].path)

EntryLists == {es \in UNION {[1..k -> GlobEntries] : k \in 0..MaxPaths} : SortedPaths(es)}

\* glob(&pattern): Err(PatternError) for an invalid pattern, else the iterator
GlobResults == {[ok |-> FALSE]} \cup [ok : {TRUE}, paths : EntryLists]

OkPaths(entries) == {entries[i].path : i \in {k \in 1..Len(entries) : entries[k].ok}}

(***************************************************************************)
(* Token streams                                                           *)
(***************************************************************************)
\* a string literal token, with or without a trailing .into()
StrLit(s, into) == [kind |-> "str", text |-> s, into |-> into]
\* an identifier token used as an argument
IdentArg(s) == [kind |-> "ident", text |-> s, into |-> FALSE]

\* quote! { #[attrs] fn #ident (params) { #callee ( args ); } }
CallItem(attrs, ident, params, callee, args) ==
    [attrs |-> attrs, ident |-> ident, params |-> params,
     body |-> [kind |-> "call", callee |-> callee, args |-> args]]

\* the result of a step of the expansion: a value, or the panic that ends it
Value(v) == [ok |-> TRUE, val |-> v]
Panic(msg) == [ok |-> FALSE, msg |-> msg]

\* concat_ts_cnt: (accu_cnt + 1, quote! { #accu_ts #other })
concat_ts_cnt(accu, other) == <<accu[1] + 1, Append(accu[2], other)>>

\* concat_ts: quote! { #accu #other }
concat_ts(accu, other) == Append(accu, other)

(***************************************************************************)
(* Integers                                                                *)
(*                                                                         *)
(* The value of an integer literal is a u64.  It is held as its decimal    *)
(* digits, most significant first, without leading zeros, so that values   *)
(* beyond the integers of the model checker keep all their digits.         *)
(***************************************************************************)
DecChars == <<"0", "1", "2", "3", "4", "5", "6", "7", "8", "9">>
HexChars == DecChars \o <<"a", "b", "c", "d", "e", "f">>

\* u64::MAX
U64Max == <<1, 8, 4, 4, 6, 7, 4, 4, 0, 7, 3, 7, 0, 9, 5, 5, 1, 6, 1, 5>>

RECURSIVE StripZeros(_)
StripZeros(ds) == IF Len(ds) > 1 /\ ds[1] = 0 THEN StripZeros(Tail(ds)) ELSE ds

\* the value of a number of at most three digits
RECURSIVE ToNat(_)
ToNat(ds) == IF ds = <<>> THEN 0 ELSE ToNat(SubSeq(ds, 1, Len(ds) - 1)) * 10 + ds[Len(ds)]

RECURSIVE FromNat(_)
FromNat(n) == IF n < 10 THEN <<n>> ELSE FromNat(n \div 10) \o <<n % 10>>

\* long division of ds by d, from digit i on: <<quotient digits, remainder>>
RECURSIVE LongDiv(_, _, _, _, _)
LongDiv(ds, d, i, q, rem) ==
    IF i > Len(ds) THEN <<StripZeros(q), rem>>
    ELSE LET cur == rem * 10 + ds[i]
         IN  LongDiv(ds, d, i + 1, Append(q, cur \div d), cur % d)

DivMod(ds, d) == LongDiv(ds, d, 1, <<>>, 0)

\* val > 255
GreaterThan255(ds) == Len(ds) > 3 \/ ToNat(ds) > 255

\* val as u8: the low eight bits
AsU8(ds) == FromNat(DivMod(ds, 256)[2])

\* the hexadecimal digits of a value, lower case, no padding
RECURSIVE HexOf(_)
HexOf(ds) ==
    LET qr == DivMod(ds, 16)
    IN  IF qr[1] = <<0>> THEN <<HexChars[qr[2] + 1]>>
        ELSE HexOf(qr[1]) \o <<HexChars[qr[2] + 1]>>

\* the decimal digits of a value, no padding
DecOf(ds) == [i \in 1..Len(ds) |-> DecChars[ds[i] + 1]]

\* {:0width}: zeros on the left up to the width, nothing cut off
ZeroPad(s, width) ==
    IF Len(s) >= width THEN s ELSE [i \in 1..(width - Len(s)) |-> "0"] \o s

(***************************************************************************)
(* Expressions of a list literal                                           *)
(***************************************************************************)
IntLit(ds) == [kind |-> "int", val |-> ds]
StrExpr(str) == [kind |-> "str", val |-> str]
CharLit(c) == [kind |-> "char", val |-> c]
ArrayExpr(elems) == [kind |-> "array", elems |-> elems]
PathExpr(leading_colon, segments) ==
    [kind |-> "path", leading_colon |-> leading_colon, segments |-> segments]
RefExpr(expr) == [kind |-> "ref", expr |-> expr]
\* any expression expr_stringified has no arm for (a bool literal, a tuple, ..)
OtherExpr == [kind |-> "other"]

CONTENT_MAX_LEN == 100

\* a slip: every integer of an array is taken for a byte
int_stringified_always_u8(val, int_as_hex) ==
    IF int_as_hex
    THEN ZeroPad(HexOf(AsU8(val)), 2)
    ELSE ZeroPad(DecOf(val), 10)

\* Lit::Int arm of expr_stringified
int_stringified(val, int_as_hex) ==
    IF int_as_hex
    THEN IF GreaterThan255(val) THEN ZeroPad(HexOf(val), 16)
         ELSE ZeroPad(HexOf(AsU8(val)), 2)
    ELSE ZeroPad(DecOf(val), 10)

\* Expr::Path arm of expr_stringified, from segment i on
RECURSIVE path_stringified(_, _, _, _)
path_stringified(segments, leading_colon, i, composed) ==
    IF i > Len(segments) THEN composed
    ELSE path_stringified(segments, leading_colon, i + 1,
             (IF composed # <<>> \/ leading_colon THEN composed \o <<"_">> ELSE composed)
             \o segments[i])

\* expr_stringified(expr, int_as_hex): the string, or the panic of an
\* expression that has no arm.  array_stringified is the loop of the
\* Expr::Array arm, from element cnt + 1 on.
RECURSIVE expr_stringified(_, _)
RECURSIVE array_stringified(_, _, _)
expr_stringified(expr, int_as_hex) ==
    CASE expr.kind = "int" -> Value(int_stringified(expr.val, int_as_hex))
      [] expr.kind = "char" -> Value(<<expr.val>>)
      [] expr.kind = "str" -> Value(expr.val)
      [] expr.kind = "array" -> array_stringified(expr.elems, 0, <<>>)
      [] expr.kind = "path" ->
             Value(path_stringified(expr.segments, expr.leading_colon, 1, <<>>))
      [] expr.kind = "ref" -> expr_stringified(expr.expr, int_as_hex)
      [] OTHER -> Panic("explicit panic")

array_stringified(elems, cnt, composed) ==
    IF cnt >= Len(elems) THEN Value(composed)
    ELSE LET sep == IF cnt > 0 /\ cnt % 8 = 0 THEN composed \o <<"_">> ELSE composed
             expr_str == expr_stringified(elems[cnt + 1], TRUE)
         IN  IF ~expr_str.ok THEN expr_str
             ELSE array_stringified(elems, cnt + 1, sep \o expr_str.val)

\* std::cmp::min
Min(a, b) == IF a < b THEN a ELSE b

\* fn_ident_from_string: the identifier, or the panic of Ident::new
fn_ident_from_string(fn_ident, name) ==
    LET safe_len == Min(Len(name), CONTENT_MAX_LEN)
        safe_name == SubSeq(name, 1, safe_len)
    IN  IdentNew(canonical_fn_name(Format(fn_ident, safe_name)))

\* fn_ident_from_expr
fn_ident_from_expr(fn_ident, expr) ==
    LET stringified == expr_stringified(expr, FALSE)
    IN  IF ~stringified.ok THEN stringified
        ELSE LET ident == fn_ident_from_string(fn_ident, stringified.val)
             IN  IF ident.ok THEN Value(ident.ident) ELSE Panic("not a valid identifier")

(***************************************************************************)
(* test_resources / bench_resources                                        *)
(***************************************************************************)
\* a slip: the generated function calls itself instead of the user function
test_resources_item_self_call(fn_ident, entry) ==
    IF ~entry.ok THEN Panic("No such file or directory")
    ELSE LET path_as_str == entry.path
             test_ident == IdentNew(test_name(fn_ident, path_as_str))
         IN  IF ~test_ident.ok THEN Panic("not a valid identifier")
             ELSE Value(CallItem(<<"test", "allow(non_snake_case)">>, test_ident.ident,
                                 <<>>, test_ident.ident, <<StrLit(path_as_str, TRUE)>>))

\* the closure of test_resources, applied to one entry of the iterator
test_resources_item(fn_ident, entry) ==
    IF ~entry.ok THEN Panic("No such file or directory")
    ELSE LET path_as_str == entry.path
             test_ident == IdentNew(test_name(fn_ident, path_as_str))
         IN  IF ~test_ident.ok THEN Panic("not a valid identifier")
             ELSE Value(CallItem(<<"test", "allow(non_snake_case)">>, test_ident.ident,
                                 <<>>, fn_ident, <<StrLit(path_as_str, TRUE)>>))

\* the closure of bench_resources, applied to one entry of the iterator
bench_resources_item(fn_ident, entry) ==
    IF ~entry.ok THEN Panic("No such file or directory")
    ELSE LET path_as_str == entry.path
             test_ident == IdentNew(test_name(fn_ident, path_as_str))
         IN  IF ~test_ident.ok THEN Panic("not a valid identifier")
             ELSE Value(CallItem(<<"bench", "allow(non_snake_case)">>, test_ident.ident,
                                 <<"b: &mut test::Bencher">>, fn_ident,
                                 <<IdentArg(<<"b">>), StrLit(path_as_str, TRUE)>>))

\* the closure of test_expand_paths
test_expand_paths_item(fn_ident, entry) ==
    IF ~entry.ok THEN Panic("No such file or directory")
    ELSE LET gen_fn_ident == fn_ident_from_path(fn_ident, entry.path)
         IN  IF ~gen_fn_ident.ok THEN Panic("not a valid identifier")
             ELSE Value(CallItem(<<"test">>, gen_fn_ident.ident, <<>>, fn_ident,
                                 <<StrLit(entry.path, FALSE)>>))

\* the closure of bench_expand_paths
bench_expand_paths_item(fn_ident, entry) ==
    IF ~entry.ok THEN Panic("No such file or directory")
    ELSE LET gen_fn_ident == fn_ident_from_path(fn_ident, entry.path)
         IN  IF ~gen_fn_ident.ok THEN Panic("not a valid identifier")
             ELSE Value(CallItem(<<"bench">>, gen_fn_ident.ident,
                                 <<"bencher: &mut test::Bencher">>, fn_ident,
                                 <<IdentArg(<<"b", "e", "n", "c", "h", "e", "r">>),
                                   StrLit(entry.path, FALSE)>>))

\* quote! { #[attrs] fn #ident (params) { let local = #ref_symbol #expr; #callee ( args ); } }
LetCallItem(attrs, ident, params, ref_symbol, expr, callee, args) ==
    [attrs |-> attrs, ident |-> ident, params |-> params,
     body |-> [kind |-> "let_call", ref_symbol |-> ref_symbol, expr |-> expr,
               callee |-> callee, args |-> args]]

\* a slip: the "&" is put before a reference as well
ref_symbol_ts_always(expr) == <<"&">>

\* ref_symbol_ts: nothing for a reference expression, else "&"
ref_symbol_ts(expr) == IF expr.kind = "ref" THEN <<>> ELSE <<"&">>

\* the closure of test_expand_list, applied to one element of the array
test_expand_list_item(fn_ident, expr) ==
    LET gen_fn_ident == fn_ident_from_expr(fn_ident, expr)
    IN  IF ~gen_fn_ident.ok THEN gen_fn_ident
        ELSE Value(LetCallItem(<<"test">>, gen_fn_ident.val, <<>>, ref_symbol_ts(expr),
                               expr, fn_ident, <<IdentArg(<<"l", "o", "c", "a", "l">>)>>))

\* the closure of bench_expand_list, applied to one element of the array
bench_expand_list_item(fn_ident, expr) ==
    LET gen_fn_ident == fn_ident_from_expr(fn_ident, expr)
    IN  IF ~gen_fn_ident.ok THEN gen_fn_ident
        ELSE Value(LetCallItem(<<"bench">>, gen_fn_ident.val,
                               <<"bencher: &mut test::Bencher">>, ref_symbol_ts(expr),
                               expr, fn_ident,
                               <<IdentArg(<<"b", "e", "n", "c", "h", "e", "r">>),
                                 IdentArg(<<"l", "o", "c", "a", "l">>)>>))

\* the closure of the macro, by name
MacroItem(macro, fn_ident, entry) ==
    CASE macro = "test_resources" -> test_resources_item(fn_ident, entry)
      [] macro = "bench_resources" -> bench_resources_item(fn_ident, entry)
      [] macro = "test_expand_paths" -> test_expand_paths_item(fn_ident, entry)
      [] macro = "bench_expand_paths" -> bench_expand_paths_item(fn_ident, entry)
      [] macro = "test_expand_list" -> test_expand_list_item(fn_ident, entry)
      [] macro = "bench_expand_list" -> bench_expand_list_item(fn_ident, entry)

\* paths.map(closure).fold((0, func_copy), concat_ts_cnt): the iterator is lazy,
\* entry i is mapped and folded before entry i + 1 is looked at
RECURSIVE FoldCnt(_, _, _, _, _)
FoldCnt(macro, fn_ident, entries, i, accu) ==
    IF i > Len(entries) THEN Value(accu)
    ELSE LET item == MacroItem(macro, fn_ident, entries[i])
         IN  IF ~item.ok THEN item
             ELSE FoldCnt(macro, fn_ident, entries, i + 1, concat_ts_cnt(accu, item.val))

\* paths.map(closure).fold(empty_ts, concat_ts)
RECURSIVE Fold(_, _, _, _, _)
Fold(macro, fn_ident, entries, i, accu) ==
    IF i > Len(entries) THEN Value(accu)
    ELSE LET item == MacroItem(macro, fn_ident, entries[i])
         IN  IF ~item.ok THEN item
             ELSE Fold(macro, fn_ident, entries, i + 1, concat_ts(accu, item.val))

\* a slip: the check for an empty expansion is left out
test_resources_no_empty_check(f, g) ==
    IF ~g.ok THEN Panic("No such file or directory {pattern}")
    ELSE LET folded == FoldCnt("test_resources", f.ident, g.paths, 1, <<0, <<f>> >>)
         IN  IF ~folded.ok THEN folded ELSE Value(folded.val[2])

\* test_resources, after the attribute and the function have been parsed
test_resources(f, g) ==
    IF ~g.ok THEN Panic("No such file or directory {pattern}")
    ELSE LET folded == FoldCnt("test_resources", f.ident, g.paths, 1, <<0, <<f>> >>)
         IN  IF ~folded.ok THEN folded
             ELSE IF folded.val[1] = 0
                  THEN Panic("no resource matching the pattern {pattern}")
                  ELSE Value(folded.val[2])

\* bench_resources, after the attribute and the function have been parsed
bench_resources(f, g) ==
    IF ~g.ok THEN Panic("No such file or directory {pattern}")
    ELSE LET folded == FoldCnt("bench_resources", f.ident, g.paths, 1, <<0, <<f>> >>)
         IN  IF ~folded.ok THEN folded
             ELSE IF folded.val[1] = 0
                  THEN Panic("no resource matching the pattern {pattern}")
                  ELSE Value(folded.val[2])

\* test_expand_paths, after the macro input has been parsed
test_expand_paths(fn_ident, g) ==
    IF ~g.ok THEN Panic("Invalid 'paths' pattern.")
    ELSE Fold("test_expand_paths", fn_ident, g.paths, 1, <<>>)

\* bench_expand_paths, after the macro input has been parsed
bench_expand_paths(fn_ident, g) ==
    IF ~g.ok THEN Panic("Invalid 'paths' pattern.")
    ELSE Fold("bench_expand_paths", fn_ident, g.paths, 1, <<>>)

\* test_expand_list, after the macro input has been parsed
test_expand_list(fn_ident, listing_expr) ==
    IF listing_expr.kind # "array" THEN Panic("explicit panic")
    ELSE Fold("test_expand_list", fn_ident, listing_expr.elems, 1, <<>>)

\* bench_expand_list, after the macro input has been parsed
bench_expand_list(fn_ident, listing_expr) ==
    IF listing_expr.kind # "array" THEN Panic("explicit panic")
    ELSE Fold("bench_expand_list", fn_ident, listing_expr.elems, 1, <<>>)

(***************************************************************************)
(* rerun_if_changed_paths                                                  *)
(***************************************************************************)
\* rerun_if_changed: println!("cargo:rerun-if-changed={}", path.display())
rerun_if_changed(out, path) == Append(out, [key |-> "cargo:rerun-if-changed", path |-> path])

Ok == [ok |-> TRUE]
Err(kind, what) == [ok |-> FALSE, err |-> kind, what |-> what]

\* what the crate documentation describes instead: a directory is not
\* registered, the loop goes on and the call returns ExpandedPathExpectedFile
RECURSIVE files_only_loop(_, _, _, _)
files_only_loop(entries, i, out, r) ==
    IF i > Len(entries) THEN [stdout |-> out, ret |-> r]
    ELSE IF ~entries[i].ok
         THEN [stdout |-> out, ret |-> Err("InvalidGlobPattern", "GlobError")]
         ELSE IF entries[i].path \in dirs
              THEN files_only_loop(entries, i + 1, out,
                       IF r.ok THEN Err("ExpandedPathExpectedFile", entries[i].path) ELSE r)
              ELSE files_only_loop(entries, i + 1, rerun_if_changed(out, entries[i].path), r)

rerun_loop_files_only(entries, i, out) == files_only_loop(entries, i, out, Ok)

\* a slip: the loop returns after the first entry
rerun_loop_first_only(entries, i, out) ==
    IF i > Len(entries) THEN [stdout |-> out, ret |-> Ok]
    ELSE IF entries[i].ok
         THEN [stdout |-> rerun_if_changed(out, entries[i].path), ret |-> Ok]
         ELSE [stdout |-> out, ret |-> Err("InvalidGlobPattern", "GlobError")]

\* the for loop of rerun_if_changed_paths, from entry i on, and the final Ok(())
RECURSIVE rerun_loop(_, _, _)
rerun_loop(entries, i, out) ==
    IF i > Len(entries) THEN [stdout |-> out, ret |-> Ok]
    ELSE IF entries[i].ok
         THEN rerun_loop(entries, i + 1, rerun_if_changed(out, entries[i].path))
         ELSE [stdout |-> out, ret |-> Err("InvalidGlobPattern", "GlobError")]

\* a slip: an invalid pattern is taken for a pattern without matches
rerun_if_changed_paths_pattern_error_ignored(g) ==
    IF ~g.ok THEN [stdout |-> <<>>, ret |-> Ok]
    ELSE rerun_loop(g.paths, 1, <<>>)

\* rerun_if_changed_paths(pattern), given what glob(&pattern) returns
rerun_if_changed_paths(g) ==
    IF ~g.ok THEN [stdout |-> <<>>, ret |-> Err("InvalidGlobPattern", "PatternError")]
    ELSE rerun_loop(g.paths, 1, <<>>)

(***************************************************************************)
(* Specification of the naming functions                                   *)
(***************************************************************************)
NameChars == Delimiters \cup {"a", "1", "_", "+"}
NameStrings == StringsUpTo(NameChars, MaxNameLen)

NoCall == [status |-> "none"]
NoGlob == [ok |-> FALSE]

IdleName == name_in = <<>> /\ name_fn = "none" /\ name_out = <<>>
IdleExpand == expansion = NoCall
IdleRerun == stdout = <<>> /\ ret = NoCall
IdleFunc == func = [ident |-> <<>>]
IdleGlob == glob_result = NoGlob /\ dirs = {}
IdleList == listing = OtherExpr /\ expr_in = OtherExpr /\ expr_out = NoCall

Tests == 1..NumTests
Unset == [set |-> FALSE, ok |-> FALSE, val |-> "none"]
IdleUtest ==
    /\ pc = [t \in Tests |-> "idle"]
    /\ context = [t \in Tests |-> Unset]
    /\ result = [t \in Tests |-> Unset]
    /\ finalizer = [t \in Tests |-> Unset]
    /\ calls = [t \in Tests |-> <<>>]

InitName ==
    /\ name_in \in NameStrings
    /\ name_fn = "none"
    /\ name_out = <<>>
    /\ func \in Funcs
    /\ IdleGlob /\ IdleExpand /\ IdleRerun /\ IdleUtest /\ IdleList

ApplyCanonicalFnName ==
    /\ name_fn = "none"
    /\ name_fn' = "canonical_fn_name"
    /\ name_out' = canonical_fn_name(name_in)
    /\ UNCHANGED <<name_in, func, globVars, listVars, expansion, rerunVars, utestVars>>

ApplyLegacyCanonicalFnName ==
    /\ name_fn = "none"
    /\ name_fn' = "legacy_canonical_fn_name"
    /\ name_out' = legacy_canonical_fn_name(name_in)
    /\ UNCHANGED <<name_in, func, globVars, listVars, expansion, rerunVars, utestVars>>

\* the name test_resources and bench_resources form for the path name_in
ApplyTestName ==
    /\ name_fn = "none"
    /\ name_in # <<>>
    /\ name_fn' = "test_name"
    /\ name_out' = test_name(func_ident, name_in)
    /\ UNCHANGED <<name_in, func, globVars, listVars, expansion, rerunVars, utestVars>>

\* the name test_expand_paths and bench_expand_paths form for the path name_in
ApplyFnIdentFromPath ==
    /\ name_fn = "none"
    /\ name_in # <<>>
    /\ name_fn' = "fn_ident_from_path"
    /\ name_out' = fn_ident_from_path(func_ident, name_in)
    /\ UNCHANGED <<name_in, func, globVars, listVars, expansion, rerunVars, utestVars>>

NextName ==
    \/ ApplyCanonicalFnName
    \/ ApplyLegacyCanonicalFnName
    \/ ApplyTestName
    \/ ApplyFnIdentFromPath

SpecName == InitName /\ [][NextName]_vars

(***************************************************************************)
(* Specification of the macros expanding a glob pattern                    *)
(***************************************************************************)
Done(macro, r) == [status |-> "done", macro |-> macro, out |-> r]

InitExpand ==
    /\ func \in Funcs
    /\ glob_result \in GlobResults
    /\ dirs = {}
    /\ expansion = NoCall
    /\ IdleName /\ IdleRerun /\ IdleUtest /\ IdleList

\* #[test_resources(pattern)] applied to func
TestResources ==
    /\ expansion = NoCall
    /\ expansion' = Done("test_resources", test_resources(func, glob_result))
    /\ UNCHANGED <<func, globVars, listVars, nameVars, rerunVars, utestVars>>

\* #[bench_resources(pattern)] applied to func
BenchResources ==
    /\ expansion = NoCall
    /\ expansion' = Done("bench_resources", bench_resources(func, glob_result))
    /\ UNCHANGED <<func, globVars, listVars, nameVars, rerunVars, utestVars>>

\* test_expand_paths! { fn_ident; pattern }
TestExpandPaths ==
    /\ expansion = NoCall
    /\ expansion' = Done("test_expand_paths", test_expand_paths(func_ident, glob_result))
    /\ UNCHANGED <<func, globVars, listVars, nameVars, rerunVars, utestVars>>

\* bench_expand_paths! { fn_ident; pattern }
BenchExpandPaths ==
    /\ expansion = NoCall
    /\ expansion' = Done("bench_expand_paths", bench_expand_paths(func_ident, glob_result))
    /\ UNCHANGED <<func, globVars, listVars, nameVars, rerunVars, utestVars>>

NextExpand ==
    \/ TestResources
    \/ BenchResources
    \/ TestExpandPaths
    \/ BenchExpandPaths

SpecExpand == InitExpand /\ [][NextExpand]_vars

(***************************************************************************)
(* Specification of the build script helper                                *)
(***************************************************************************)
InitRerun ==
    /\ glob_result \in GlobResults
    /\ dirs \in (IF glob_result.ok THEN SUBSET OkPaths(glob_result.paths) ELSE {{}})
    /\ stdout = <<>>
    /\ ret = NoCall
    /\ IdleFunc /\ IdleName /\ IdleExpand /\ IdleUtest /\ IdleList

\* build_deps::rerun_if_changed_paths(pattern)
RerunIfChangedPaths ==
    /\ ret = NoCall
    /\ LET r == rerun_if_changed_paths(glob_result)
       IN  stdout' = r.stdout /\ ret' = r.ret
    /\ UNCHANGED <<func, globVars, listVars, nameVars, expansion, utestVars>>

NextRerun == RerunIfChangedPaths

SpecRerun == InitRerun /\ [][NextRerun]_vars

(***************************************************************************)
(* Specification of utest!                                                 *)
(*                                                                         *)
(* Each utest! invocation generates one #[test] function; the test         *)
(* framework runs them in parallel.  A closure returns or panics, and      *)
(* catch_unwind turns the panic into Err.                                  *)
(***************************************************************************)
\* the values $setup() may return
Contexts == {"ctx1", "ctx2"}

\* catch_unwind(..): Ok(v), or Err when the closure panicked
CatchOk(v) == [set |-> TRUE, ok |-> TRUE, val |-> v]
CatchErr == [set |-> TRUE, ok |-> FALSE, val |-> "panic"]

Call(phase, by, arg) == [phase |-> phase, by |-> by, arg |-> arg]

InitUtest ==
    /\ pc = [t \in Tests |-> "setup"]
    /\ context = [t \in Tests |-> Unset]
    /\ result = [t \in Tests |-> Unset]
    /\ finalizer = [t \in Tests |-> Unset]
    /\ calls = [t \in Tests |-> <<>>]
    /\ IdleFunc /\ IdleGlob /\ IdleName /\ IdleExpand /\ IdleRerun /\ IdleList

\* let context = std::panic::catch_unwind(|| $setup());
UtestSetup(t) ==
    /\ pc[t] = "setup"
    /\ \E c \in {CatchOk(v) : v \in Contexts} \cup {CatchErr} :
           context' = [context EXCEPT ![t] = c]
    /\ calls' = [calls EXCEPT ![t] = Append(@, Call("setup", "none", "none"))]
    /\ pc' = [pc EXCEPT ![t] = "assert_context"]
    /\ UNCHANGED <<result, finalizer, func, globVars, listVars, nameVars, expansion, rerunVars>>

\* assert!(context.is_ok()); let ctx = match context { Ok(ctx) => ctx, .. };
UtestAssertContext(t) ==
    /\ pc[t] = "assert_context"
    /\ pc' = [pc EXCEPT ![t] = IF context[t].ok THEN "test" ELSE "failed"]
    /\ UNCHANGED <<context, result, finalizer, calls, func, globVars, listVars, nameVars,
                   expansion, rerunVars>>

\* a slip: assert!(result.is_ok()) placed right after the test phase
UtestTestAssertFirst(t) ==
    /\ pc[t] = "test"
    /\ \E r \in {CatchOk("unit"), CatchErr} :
           /\ result' = [result EXCEPT ![t] = r]
           /\ pc' = [pc EXCEPT ![t] = IF r.ok THEN "teardown" ELSE "failed"]
    /\ calls' = [calls EXCEPT ![t] = Append(@, Call("test", "ref", context[t].val))]
    /\ UNCHANGED <<context, finalizer, func, globVars, listVars, nameVars, expansion, rerunVars>>

\* let result = std::panic::catch_unwind(|| $test(&ctx));
UtestTest(t) ==
    /\ pc[t] = "test"
    /\ \E r \in {CatchOk("unit"), CatchErr} : result' = [result EXCEPT ![t] = r]
    /\ calls' = [calls EXCEPT ![t] = Append(@, Call("test", "ref", context[t].val))]
    /\ pc' = [pc EXCEPT ![t] = "teardown"]
    /\ UNCHANGED <<context, finalizer, func, globVars, listVars, nameVars, expansion, rerunVars>>

\* a slip: the teardown closure is handed a fresh context
UtestTeardownOtherContext(t) ==
    /\ pc[t] = "teardown"
    /\ \E r \in {CatchOk("unit"), CatchErr} : finalizer' = [finalizer EXCEPT ![t] = r]
    /\ \E v \in Contexts \ {context[t].val} :
           calls' = [calls EXCEPT ![t] = Append(@, Call("teardown", "value", v))]
    /\ pc' = [pc EXCEPT ![t] = "assert_result"]
    /\ UNCHANGED <<context, result, func, globVars, listVars, nameVars, expansion, rerunVars>>

\* let finalizer = std::panic::catch_unwind(|| $teardown(ctx));
UtestTeardown(t) ==
    /\ pc[t] = "teardown"
    /\ \E r \in {CatchOk("unit"), CatchErr} : finalizer' = [finalizer EXCEPT ![t] = r]
    /\ calls' = [calls EXCEPT ![t] = Append(@, Call("teardown", "value", context[t].val))]
    /\ pc' = [pc EXCEPT ![t] = "assert_result"]
    /\ UNCHANGED <<context, result, func, globVars, listVars, nameVars, expansion, rerunVars>>

\* assert!(result.is_ok());
UtestAssertResult(t) ==
    /\ pc[t] = "assert_result"
    /\ pc' = [pc EXCEPT ![t] = IF result[t].ok THEN "assert_finalizer" ELSE "failed"]
    /\ UNCHANGED <<context, result, finalizer, calls, func, globVars, listVars, nameVars,
                   expansion, rerunVars>>

\* assert!(finalizer.is_ok());
UtestAssertFinalizer(t) ==
    /\ pc[t] = "assert_finalizer"
    /\ pc' = [pc EXCEPT ![t] = IF finalizer[t].ok THEN "passed" ELSE "failed"]
    /\ UNCHANGED <<context, result, finalizer, calls, func, globVars, listVars, nameVars,
                   expansion, rerunVars>>

NextUtest ==
    \E t \in Tests :
        \/ UtestSetup(t)
        \/ UtestAssertContext(t)
        \/ UtestTest(t)
        \/ UtestTeardown(t)
        \/ UtestAssertResult(t)
        \/ UtestAssertFinalizer(t)

SpecUtest == InitUtest /\ [][NextUtest]_vars

(***************************************************************************)
(* Inputs of the list macros                                               *)
(***************************************************************************)
\* integer literals: around the widths {:010} and {:02x} / {:016x} decide on
IntSamples ==
    { <<0>>, <<1>>, <<1, 0>>, <<2, 5, 5>>, <<2, 5, 6>>, <<1, 0, 0, 0>>,
      <<9, 9, 9, 9, 9, 9, 9, 9, 9, 9>>, <<1, 0, 0, 0, 0, 0, 0, 0, 0, 0, 0>>, U64Max }
IntExprs == {IntLit(ds) : ds \in IntSamples}

\* integers inside the enumerated arrays: the last byte and the first wider value
ArrayInts == {<<2, 5, 5>>, <<2, 5, 6>>}
ArrayExprs ==
    {ArrayExpr(elems) :
        elems \in UNION {[1..k -> {IntLit(ds) : ds \in ArrayInts}] : k \in 0..MaxArrayLen}}

\* a string of CONTENT_MAX_LEN + 1 characters, ending in c
LongString(c) == [i \in 1..(CONTENT_MAX_LEN + 1) |-> IF i <= CONTENT_MAX_LEN THEN "a" ELSE c]

StrSamples ==
    { <<"a">>, <<"a", ".", "b">>, <<"a", "_", "b">>, <<"a", "+", "b">>,
      <<"0", "0", "0", "0", "0", "0", "0", "0", "0", "1">>,
      LongString("a"), LongString("b") }
StrExprs == {StrExpr(str) : str \in StrSamples}

\* names of statics, as VEC1 and VEC2 of the example
PathExprs ==
    { PathExpr(FALSE, <<<<"c", "1">>>>), PathExpr(FALSE, <<<<"d", "1">>>>),
      PathExpr(FALSE, <<<<"c">>, <<"d">>>>), PathExpr(TRUE, <<<<"c", "1">>>>) }

\* the arrays of the example, and two that hold the same bytes
SmallArrays ==
    { ArrayExpr(<<IntLit(<<1>>), IntLit(<<2>>), IntLit(<<3>>), IntLit(<<4>>)>>),
      ArrayExpr(<<IntLit(<<5>>), IntLit(<<6>>), IntLit(<<7>>), IntLit(<<8>>)>>),
      ArrayExpr(<<IntLit(<<0>>), IntLit(<<0>>), IntLit(<<0>>), IntLit(<<0>>),
                  IntLit(<<0>>), IntLit(<<0>>), IntLit(<<1>>), IntLit(<<2>>)>>),
      ArrayExpr(<<IntLit(<<2, 5, 8>>)>>) }

RefExprs == {RefExpr(e) : e \in PathExprs \cup SmallArrays \cup {IntLit(<<1>>)}}

\* the expressions handed to expr_stringified
ExprInputs ==
    IntExprs \cup ArrayExprs \cup SmallArrays \cup {ArrayExpr(<<e>>) : e \in IntExprs}
    \cup StrExprs \cup {CharLit("a")}
    \cup PathExprs \cup RefExprs \cup {OtherExpr, ArrayExpr(<<OtherExpr>>)}

\* the elements of the list literal of a macro invocation
ListElems ==
    {IntLit(ds) : ds \in {<<1>>, <<1, 0>>, <<1, 0, 0, 0>>, <<1, 0, 0, 0, 0, 0, 0, 0, 0, 0, 0>>}}
    \cup StrExprs \cup PathExprs \cup SmallArrays \cup RefExprs \cup {OtherExpr}

\* the expression after "fn_ident;": an array, or (wrongly) something else
Listings ==
    {ArrayExpr(elems) : elems \in UNION {[1..k -> ListElems] : k \in 0..MaxElems}}
    \cup {IntLit(<<1>>)}

(***************************************************************************)
(* Specification of the stringifying functions                             *)
(***************************************************************************)
Applied(fn, int_as_hex, r) ==
    [status |-> "done", fn |-> fn, int_as_hex |-> int_as_hex, out |-> r]

InitStringify ==
    /\ func \in Funcs
    /\ expr_in \in ExprInputs
    /\ expr_out = NoCall
    /\ listing = OtherExpr
    /\ IdleGlob /\ IdleName /\ IdleExpand /\ IdleRerun /\ IdleUtest

ApplyExprStringified ==
    /\ expr_out = NoCall
    /\ \E int_as_hex \in BOOLEAN :
           expr_out' = Applied("expr_stringified", int_as_hex,
                               expr_stringified(expr_in, int_as_hex))
    /\ UNCHANGED <<func, listing, expr_in, globVars, nameVars, expansion, rerunVars,
                   utestVars>>

ApplyFnIdentFromExpr ==
    /\ expr_out = NoCall
    /\ expr_out' = Applied("fn_ident_from_expr", FALSE, fn_ident_from_expr(func_ident, expr_in))
    /\ UNCHANGED <<func, listing, expr_in, globVars, nameVars, expansion, rerunVars,
                   utestVars>>

NextStringify ==
    \/ ApplyExprStringified
    \/ ApplyFnIdentFromExpr

SpecStringify == InitStringify /\ [][NextStringify]_vars

(***************************************************************************)
(* Specification of the list macros                                        *)
(***************************************************************************)
InitList ==
    /\ func \in Funcs
    /\ listing \in Listings
    /\ expansion = NoCall
    /\ expr_in = OtherExpr /\ expr_out = NoCall
    /\ IdleGlob /\ IdleName /\ IdleRerun /\ IdleUtest

\* test_expand_list! { fn_ident; listing }
TestExpandList ==
    /\ expansion = NoCall
    /\ expansion' = Done("test_expand_list", test_expand_list(func_ident, listing))
    /\ UNCHANGED <<func, globVars, listVars, nameVars, rerunVars, utestVars>>

\* bench_expand_list! { fn_ident; listing }
BenchExpandList ==
    /\ expansion = NoCall
    /\ expansion' = Done("bench_expand_list", bench_expand_list(func_ident, listing))
    /\ UNCHANGED <<func, globVars, listVars, nameVars, rerunVars, utestVars>>

NextList ==
    \/ TestExpandList
    \/ BenchExpandList

SpecList == InitList /\ [][NextList]_vars

(***************************************************************************)
(* Claims about the macros expanding a glob pattern (SpecExpand)           *)
(***************************************************************************)
AllOk(entries) == \A i \in 1..Len(entries) : entries[i].ok

Expanded(macro) == expansion.status = "done" /\ expansion.macro = macro

\* the i-th generated function of test_resources as the claim describes it
IsTestOf(item, fn_ident, path) ==
    /\ item.attrs[1] = "test"
    /\ item.params = <<>>
    /\ item.body = [kind |-> "call", callee |-> fn_ident, args |-> <<StrLit(path, TRUE)>>]

\* what C1 says of the output ts for the matched entries
OnePerPath(ts, entries) ==
    /\ Len(ts) = Len(entries) + 1
    /\ ts[1] = func
    /\ \A i \in 1..Len(entries) : IsTestOf(ts[i + 1], func_ident, entries[i].path)

\* C1: when the pattern matches n >= 1 paths, test_resources returns the
\* original function followed by exactly n #[test] functions, the i-th of
\* which calls the original function with the i-th path, unmodified.
C1_OnePerPath ==
    (/\ Expanded("test_resources")
     /\ glob_result.ok
     /\ AllOk(glob_result.paths)
     /\ Len(glob_result.paths) >= 1)
    => (expansion.out.ok /\ OnePerPath(expansion.out.val, glob_result.paths))

\* C1, for the paths whose generated names Ident::new accepts: the rest of
\* the claim holds of every expansion that returns.
C1_OnePerPathWhenReturned ==
    (Expanded("test_resources") /\ expansion.out.ok)
    => (/\ glob_result.ok
        /\ AllOk(glob_result.paths)
        /\ Len(glob_result.paths) >= 1
        /\ OnePerPath(expansion.out.val, glob_result.paths))

NoResource == Panic("no resource matching the pattern {pattern}")

\* C2: test_resources and bench_resources raise 'no resource matching the
\* pattern' and return nothing exactly when the pattern matches no path;
\* with at least one match that error is not raised.
C2_ErrorIffNoMatch ==
    \A macro \in {"test_resources", "bench_resources"} :
        (Expanded(macro) /\ glob_result.ok)
        => (expansion.out = NoResource <=> Len(glob_result.paths) = 0)

C2_Witness ==
    /\ Expanded("bench_resources")
    /\ glob_result.ok
    /\ glob_result.paths = <<>>
    /\ expansion.out = NoResource

\* the functions a macro generated, in order (test_resources and
\* bench_resources put the original function first)
Generated ==
    IF expansion.macro \in {"test_resources", "bench_resources"}
    THEN Tail(expansion.out.val) ELSE expansion.out.val

\* C4: for one function name, two distinct matched paths never get the same
\* generated identifier, in any of the four macros.
C4_DistinctIdents ==
    (expansion.status = "done" /\ expansion.out.ok)
    => \A i, j \in 1..Len(Generated) :
           glob_result.paths[i].path # glob_result.paths[j].path
           => Generated[i].ident # Generated[j].ident

C5_OnlyIdentChars ==
    name_fn \in {"canonical_fn_name", "legacy_canonical_fn_name"}
    => \A i \in 1..Len(name_out) : name_out[i] \in IdentChars

(***************************************************************************)
(* Claims about utest! (SpecUtest)                                         *)
(***************************************************************************)
Terminal == {"passed", "failed"}

IsTeardown(c) == c.phase = "teardown"
TeardownCalls(t) == SelectSeq(calls[t], IsTeardown)

\* C6: in every run in which setup returned, teardown is invoked exactly
\* once, with the context, by the time the test function ends, whether the
\* test phase returned or panicked (and never more than once before that).
C6_TeardownAlwaysInvoked ==
    \A t \in Tests :
        (context[t].set /\ context[t].ok)
        => /\ Len(TeardownCalls(t)) <= 1
           /\ pc[t] \in Terminal
              => TeardownCalls(t) = <<Call("teardown", "value", context[t].val)>>

C6_Witness ==
    \E t \in Tests :
        /\ pc[t] = "failed"
        /\ context[t].ok
        /\ result[t] = CatchErr
        /\ Len(TeardownCalls(t)) = 1

\* the calls of a run whose setup returned c, in the order the claim gives
Phases(c) == <<Call("setup", "none", "none"), Call("test", "ref", c),
               Call("teardown", "value", c)>>

\* C7: the phases run in the order setup, test, teardown, each at most once:
\* test starts only after setup has returned and gets a reference to the
\* context setup returned, teardown starts only after the test phase has
\* ended and gets that same context by value.
C7_PhaseOrder ==
    \A t \in Tests :
        /\ Len(calls[t]) <= 3
        /\ calls[t] = SubSeq(Phases(context[t].val), 1, Len(calls[t]))
        /\ Len(calls[t]) >= 2 => (context[t].set /\ context[t].ok)
        /\ Len(calls[t]) = 3 => result[t].set

C7_Witness ==
    \E t \in Tests :
        /\ pc[t] = "passed"
        /\ calls[t] = Phases("ctx2")

(***************************************************************************)
(* Claims about rerun_if_changed_paths (SpecRerun)                         *)
(***************************************************************************)
Returned == ret # NoCall

Line(path) == [key |-> "cargo:rerun-if-changed", path |-> path]

\* C8: if the expanded set contains a directory, the function goes on with
\* the next element but returns Error::ExpandedPathExpectedFile carrying
\* that path.
C8_DirectoryIsReported ==
    (/\ Returned
     /\ glob_result.ok
     /\ AllOk(glob_result.paths)
     /\ \E i \in 1..Len(glob_result.paths) : glob_result.paths[i].path \in dirs)
    => (/\ ~ret.ok
        /\ ret.err = "ExpandedPathExpectedFile"
        /\ ret.what \in dirs)

C10_EveryPathRegisteredOnce ==
    (Returned /\ glob_result.ok /\ AllOk(glob_result.paths))
    => (/\ ret = Ok
        /\ Len(stdout) = Len(glob_result.paths)
        /\ \A i \in 1..Len(stdout) : stdout[i] = Line(glob_result.paths[i].path))

C10_Witness ==
    /\ ret = Ok
    /\ glob_result.ok
    /\ Len(glob_result.paths) = 2
    /\ AllOk(glob_result.paths)
    /\ Len(stdout) = 2

\* C11: an invalid glob pattern yields Err(Error::InvalidGlobPattern), and
\* no cargo:rerun-if-changed line has been printed when it is returned.
C11_InvalidPattern ==
    (Returned /\ ~glob_result.ok)
    => (/\ ~ret.ok
        /\ ret.err = "InvalidGlobPattern"
        /\ stdout = <<>>)

C11_Witness ==
    /\ ~glob_result.ok
    /\ ret = Err("InvalidGlobPattern", "PatternError")
    /\ stdout = <<>>


(***************************************************************************)
(* More claims about test_resources / bench_resources (SpecExpand)         *)
(***************************************************************************)
\* the body of item is one call of callee, and nothing else
IsSingleCall(item, callee) ==
    /\ DOMAIN item.body = {"kind", "callee", "args"}
    /\ item.body.kind = "call"
    /\ item.body.callee = callee

\* C14: test_resources keeps the annotated function: its tokens (attributes,
\* signature, body) are the first item of the expansion, unchanged, and each
\* generated test holds nothing but one call of that function, none of them
\* taking its name.
C14_FunctionPreserved ==
    (Expanded("test_resources") /\ expansion.out.ok)
    => LET ts == expansion.out.val
       IN  /\ ts[1] = func
           /\ \A i \in 2..Len(ts) :
                  /\ IsSingleCall(ts[i], func.ident)
                  /\ Len(ts[i].body.args) = 1
                  /\ ts[i].ident # func.ident

\* a function carrying an attribute was expanded into itself and two tests
C14_Witness ==
    /\ Expanded("test_resources") /\ expansion.out.ok
    /\ func.attrs # <<>>
    /\ Len(expansion.out.val) = 3
    /\ expansion.out.val[1] = func

\* name is '<function name>_<path>' with the characters canonical_fn_name
\* is documented to replace turned into '_'
IsNameOf(name, fn_ident, path) ==
    LET whole == fn_ident \o <<"_">> \o path
    IN  /\ Len(name) = Len(whole)
        /\ \A i \in 1..Len(whole) :
               name[i] = IF whole[i] \in {"\"", " ", ".", ":", "-", "*", "/", "\\",
                                          "\n", "\t", "\r"}
                         THEN "_" ELSE whole[i]

\* item is a #[bench] function named after path that takes one
\* &mut test::Bencher and calls fn_ident with it and then the path string
IsBenchOf(item, fn_ident, path) ==
    /\ item.attrs[1] = "bench"
    /\ Len(item.params) = 1
    /\ item.params[1] = "b: &mut test::Bencher"
    /\ IsSingleCall(item, fn_ident)
    /\ item.body.args = <<IdentArg(<<"b">>), StrLit(path, TRUE)>>
    /\ IsNameOf(item.ident, fn_ident, path)

BenchPerPath(ts, entries) ==
    /\ Len(ts) = Len(entries) + 1
    /\ \A i \in 1..Len(entries) : IsBenchOf(ts[i + 1], func_ident, entries[i].path)

\* C15: for each matched path the expansion of bench_resources holds one
\* #[bench] function that takes a single &mut test::Bencher and calls the
\* original function with the bencher first and the path string second; its
\* name follows the rule of test_resources.
C15_BenchPerPath ==
    (/\ Expanded("bench_resources")
     /\ glob_result.ok
     /\ AllOk(glob_result.paths)
     /\ Len(glob_result.paths) >= 1)
    => (expansion.out.ok /\ BenchPerPath(expansion.out.val, glob_result.paths))

\* C15, for the paths whose generated names Ident::new accepts: the claim
\* holds of every expansion that returns.
C15_BenchPerPathWhenReturned ==
    (Expanded("bench_resources") /\ expansion.out.ok)
    => (/\ glob_result.ok
        /\ AllOk(glob_result.paths)
        /\ BenchPerPath(expansion.out.val, glob_result.paths))

(***************************************************************************)
(* Claims about the list macros (SpecList, SpecStringify)                  *)
(***************************************************************************)
ListMacros == {"test_expand_list", "bench_expand_list"}

ListExpanded == expansion.status = "done" /\ expansion.macro \in ListMacros

\* an element, or the target of a reference element, of a kind that
\* expr_stringified has an arm for
HasArm(e) == e.kind # "other" /\ (e.kind = "ref" => e.expr.kind # "other")

HasPrefix(s, prefix) == Len(s) >= Len(prefix) /\ SubSeq(s, 1, Len(prefix)) = prefix

\* s without its first n characters
Drop(s, n) == SubSeq(s, n + 1, Len(s))

\* s is the decimal form of ds, zero-padded to 10 digits, in full if longer
IsPaddedDecimal(s, ds) ==
    LET n == Len(ds)
        w == IF n > 10 THEN n ELSE 10
    IN  /\ Len(s) = w
        /\ \A i \in 1..w : s[i] = IF i <= w - n THEN "0" ELSE DecChars[ds[i - (w - n)] + 1]

\* item is the function generated for element e: it is a #[test] or a
\* #[bench] function, named fn_ident, '_' and the stringified element, that
\* binds e and calls fn_ident
IsFunctionOf(item, macro, fn_ident, e) ==
    /\ item.attrs = (IF macro = "test_expand_list" THEN <<"test">> ELSE <<"bench">>)
    /\ item.body.expr = e
    /\ item.body.callee = fn_ident
    /\ HasPrefix(item.ident, fn_ident \o <<"_">>)
    /\ e.kind = "int" => IsPaddedDecimal(Drop(item.ident, Len(fn_ident) + 1), e.val)

OnePerElement(ts, macro, fn_ident, elems) ==
    /\ Len(ts) = Len(elems)
    /\ \A i \in 1..Len(elems) : IsFunctionOf(ts[i], macro, fn_ident, elems[i])

\* C12: for a list literal of k elements the expansion of test_expand_list /
\* bench_expand_list holds exactly k generated functions, one per element in
\* list order, each named <function name>_<stringified element>, an integer
\* element as its decimal value zero-padded to 10 digits and in full when it
\* has more digits.
C12_OnePerElement ==
    (/\ ListExpanded
     /\ listing.kind = "array"
     /\ \A i \in 1..Len(listing.elems) : HasArm(listing.elems[i]))
    => (/\ expansion.out.ok
        /\ OnePerElement(expansion.out.val, expansion.macro, func_ident, listing.elems))

\* C12, for the elements whose generated names Ident::new accepts: the claim
\* holds of every expansion that returns.
C12_OnePerElementWhenReturned ==
    (ListExpanded /\ expansion.out.ok)
    => (/\ listing.kind = "array"
        /\ OnePerElement(expansion.out.val, expansion.macro, func_ident, listing.elems))

\* a returned expansion for a list holding an integer of more than 10 digits
C12_LongIntegerReturned ==
    /\ ListExpanded /\ expansion.out.ok
    /\ listing.kind = "array"
    /\ \E i \in 1..Len(listing.elems) :
           listing.elems[i].kind = "int" /\ Len(listing.elems[i].val) > 10

IsArrayOfInts(e) ==
    e.kind = "array" /\ \A i \in 1..Len(e.elems) : e.elems[i].kind = "int"

Stringified(fn) == expr_out.status = "done" /\ expr_out.fn = fn

\* ds * m + a, on decimal digits: <<digits, carry>> from digit i down
RECURSIVE MulAddFrom(_, _, _, _, _)
MulAddFrom(ds, m, i, carry, acc) ==
    IF i = 0 THEN (IF carry = 0 THEN acc ELSE FromNat(carry) \o acc)
    ELSE LET cur == ds[i] * m + carry
         IN  MulAddFrom(ds, m, i - 1, cur \div 10, <<cur % 10>> \o acc)

MulAdd(ds, m, a) == StripZeros(MulAddFrom(ds, m, Len(ds), a, <<>>))

HexDigit(c) == CHOOSE d \in 0..15 : HexChars[d + 1] = c

\* the value that the hexadecimal string h denotes, in decimal digits
RECURSIVE HexValueFrom(_, _, _)
HexValueFrom(h, i, acc) ==
    IF i > Len(h) THEN acc ELSE HexValueFrom(h, i + 1, MulAdd(acc, 16, HexDigit(h[i])))

HexValue(h) == HexValueFrom(h, 1, <<0>>)

IsHexString(h) == \A i \in 1..Len(h) : \E d \in 0..15 : HexChars[d + 1] = h[i]

InU8Range(ds) == Len(ds) <= 3 /\ ToNat(ds) <= 255

\* the number of hexadecimal digits the claim gives to a value
HexWidth(ds) == IF InU8Range(ds) THEN 2 ELSE 16

\* s, from element i on, is the hexadecimal forms of the elements in order,
\* each of its width and denoting the element's value; with grouped, a '_'
\* stands before every element that follows a multiple of 8 elements
RECURSIVE IsHexSequence(_, _, _, _)
IsHexSequence(s, elems, i, grouped) ==
    IF i > Len(elems) THEN s = <<>>
    ELSE LET sep == grouped /\ i > 1 /\ (i - 1) % 8 = 0
             rest == IF sep THEN Drop(s, 1) ELSE s
             w == HexWidth(elems[i].val)
         IN  /\ sep => (s # <<>> /\ s[1] = "_")
             /\ Len(rest) >= w
             /\ IsHexString(SubSeq(rest, 1, w))
             /\ HexValue(SubSeq(rest, 1, w)) = elems[i].val
             /\ IsHexSequence(Drop(rest, w), elems, i + 1, grouped)

\* C13 as stated: the stringification of an array of integers is the
\* hexadecimal forms of its elements, two digits for a value <= 255 and 16
\* digits otherwise, each denoting the element's value, concatenated in
\* element order.
C13_HexConcatenated ==
    (Stringified("expr_stringified") /\ IsArrayOfInts(expr_in))
    => (/\ expr_out.out.ok
        /\ IsHexSequence(expr_out.out.val, expr_in.elems, 1, FALSE))

\* C13, amended: the hexadecimal forms, two digits for a value <= 255 and 16
\* digits otherwise, each denoting the element's value, stand in element
\* order with a '_' after every 8 elements that are followed by another; the
\* generated name is the function name, '_' and at most the first
\* CONTENT_MAX_LEN characters of that.
C13_HexGrouped ==
    /\ (Stringified("expr_stringified") /\ IsArrayOfInts(expr_in))
       => (/\ expr_out.out.ok
           /\ IsHexSequence(expr_out.out.val, expr_in.elems, 1, TRUE))
    /\ (Stringified("fn_ident_from_expr") /\ IsArrayOfInts(expr_in))
       => (/\ expr_out.out.ok
           /\ HasPrefix(expr_out.out.val, func_ident \o <<"_">>)
           /\ LET tail == Drop(expr_out.out.val, Len(func_ident) + 1)
                  whole == expr_stringified(expr_in, FALSE).val
              IN  IF Len(tail) < CONTENT_MAX_LEN
                  THEN IsHexSequence(tail, expr_in.elems, 1, TRUE)
                  ELSE tail = SubSeq(whole, 1, CONTENT_MAX_LEN))

\* an array of more than 8 integers, on both sides of 255, was stringified
C13_Witness ==
    /\ Stringified("expr_stringified")
    /\ IsArrayOfInts(expr_in)
    /\ Len(expr_in.elems) > 8
    /\ \E i, j \in 1..Len(expr_in.elems) :
           InU8Range(expr_in.elems[i].val) /\ ~InU8Range(expr_in.elems[j].val)
    /\ expr_out.out.ok
    /\ expr_out.out.val[17] = "_"

\* a name written without '::', as VEC1
IsPlainName(e) == e.kind = "path" /\ ~e.leading_colon /\ Len(e.segments) = 1

\* C16: in a returned expansion of test_expand_list / bench_expand_list the
\* function of a reference element &X binds the element as written, with no
\* '&' added, and is named <function name>_X when X is a name; the function
\* of any other element binds the element with exactly one '&' before it.
\* Either way the bound value is what the user function is called with.
C16_ReferencePassedAsWritten ==
    (ListExpanded /\ expansion.out.ok)
    => \A i \in 1..Len(expansion.out.val) :
           LET e == listing.elems[i]
               item == expansion.out.val[i]
           IN  /\ item.body.expr = e
               /\ item.body.callee = func_ident
               /\ item.body.args[Len(item.body.args)] = IdentArg(<<"l", "o", "c", "a", "l">>)
               /\ e.kind = "ref" => item.body.ref_symbol = <<>>
               /\ e.kind # "ref" => item.body.ref_symbol = <<"&">>
               /\ (e.kind = "ref" /\ IsPlainName(e.expr))
                  => item.ident = func_ident \o <<"_">> \o e.expr.segments[1]

\* the list [ &c1, 1 ] was expanded
C16_Witness ==
    /\ ListExpanded /\ expansion.out.ok
    /\ listing = ArrayExpr(<<RefExpr(PathExpr(FALSE, <<<<"c", "1">>>>)), IntLit(<<1>>)>>)
    /\ expansion.out.val[1].body.ref_symbol = <<>>
    /\ expansion.out.val[1].ident = func_ident \o <<"_", "c", "1">>
    /\ expansion.out.val[2].body.ref_symbol = <<"&">>

\* the value an element denotes: that of the referenced expression for &X
Referent(e) == IF e.kind = "ref" THEN e.expr ELSE e

\* C17: within one invocation of test_expand_list / bench_expand_list, two
\* elements that differ as values (different integers, different strings,
\* different arrays, different referenced names) get different generated
\* function names.
C17_DistinctNames ==
    (ListExpanded /\ expansion.out.ok)
    => \A i, j \in 1..Len(expansion.out.val) :
           (/\ Referent(listing.elems[i]).kind = Referent(listing.elems[j]).kind
            /\ Referent(listing.elems[i]) # Referent(listing.elems[j]))
           => expansion.out.val[i].ident # expansion.out.val[j].ident

====
